---- MODULE Spec2Model ----
(***************************************************************************)
(* Model of the onetimepad crate (src/src/lib.rs): the OneTimePad engine,  *)
(* its alphabet string, its pad buffer and the push_to_pad, generate_pad,  *)
(* clear_pad, encode and decode operations.                                *)
(*                                                                         *)
(* A char is its Unicode code point.  A string is the sequence of its      *)
(* chars; the functions of str that count or address BYTES (len, find)     *)
(* are modelled on the UTF-8 width of each char, the functions that        *)
(* address CHARS (chars().nth) on the position in the sequence.            *)
(***************************************************************************)
EXTENDS Integers, Sequences, FiniteSets, TLC

VARIABLES alphabet, pad_buffer, last, retry

vars == <<alphabet, pad_buffer, last, retry>>

(***************************************************************************)
(* Bounds of the model.                                                    *)
(***************************************************************************)
\* longest text handed to push_to_pad, encode or decode, in chars
MaxText == 2
\* most indices one generate_pad call is asked for
MaxGen == 1
\* most indices queued in the pad buffer
MaxPad == 2

\* The chars of the model: 'a' (U+0061), 'b' (U+0062), both one byte wide in
\* UTF-8, and 'e acute' (U+00E9), two bytes wide.
Chars == {97, 98, 233}

\* The value of Option::None where a char is expected.
NoChar == 0 - 1

(***************************************************************************)
(* Strings.                                                                *)
(***************************************************************************)
\* char::len_utf8: the number of bytes of the UTF-8 encoding of a char.
Utf8Len(ch) ==
    IF ch < 128 THEN 1
    ELSE IF ch < 2048 THEN 2
    ELSE IF ch < 65536 THEN 3
    ELSE 4

\* str::len: the length of a string in BYTES.
RECURSIVE ByteLen(_)
ByteLen(s) == IF s = <<>> THEN 0 ELSE Utf8Len(Head(s)) + ByteLen(Tail(s))

\* The sequences over S of length at most n.
SeqUpTo(S, n) == UNION {[1..k -> S] : k \in 0..n}

\* The alphabets an engine is constructed with, each of distinct chars: "a",
\* "ab", "\u00E9a" and "a\u00E9b".  The first two are ASCII; in the last two the
\* two-byte char shifts the byte offsets of the chars after it.
Alphabets == {<<97>>, <<97, 98>>, <<233, 97>>, <<97, 233, 98>>}

\* The texts a caller hands to push_to_pad, encode and decode.
Texts == SeqUpTo(Chars, MaxText)

(***************************************************************************)
(* The alphabet lookups.                                                   *)
(***************************************************************************)
\* self.alphabet.find(ch): the BYTE offset of the first occurrence of ch.
\* Some(offset) is [ok |-> TRUE, val |-> offset], None is [ok |-> FALSE].
char_to_scalar(alph, ch) ==
    LET at == {i \in 1..Len(alph) : alph[i] = ch}
    IN  IF at = {}
        THEN [ok |-> FALSE, val |-> 0, ch |-> ch]
        ELSE LET first == CHOOSE i \in at : \A j \in at : i <= j
             IN  [ok |-> TRUE, val |-> ByteLen(SubSeq(alph, 1, first - 1)), ch |-> ch]

\* sc % self.alphabet.len() reduces by the length in BYTES; chars().nth(sc)
\* takes the sc-th CHAR, and the unwrap panics (NoChar) when there is none.
scalar_to_char(alph, sc) ==
    LET n == sc % ByteLen(alph)
    IN  IF n < Len(alph) THEN alph[n + 1] ELSE NoChar

\* The first char of text that is not in the alphabet, as the `?` of a
\* `for ch in text.chars() { self.char_to_scalar(ch)?; }` loop finds it.
RECURSIVE first_invalid(_, _)
first_invalid(alph, text) ==
    IF text = <<>> THEN NoChar
    ELSE IF ~char_to_scalar(alph, Head(text)).ok THEN Head(text)
    ELSE first_invalid(alph, Tail(text))

(***************************************************************************)
(* Results of a call.  kind is "Ok", an error of OneTimePadError, or       *)
(* "Panic" when an unwrap fails; buffer is the pad buffer the call leaves; *)
(* ch the char of CharacterNotInAlphabet; text the cipher text of encode   *)
(* or the plain text of decode; pad the pad text encode returns; used the  *)
(* indices popped off the buffer, in the order popped.                     *)
(***************************************************************************)
Outcome(kind, buffer, ch, text, pad, used) ==
    [kind |-> kind, buffer |-> buffer, ch |-> ch,
     text |-> text, pad |-> pad, used |-> used]

\* push_to_pad: each char is resolved and pushed in turn; the `?` returns at
\* the first char that is not in the alphabet, after the pushes before it.
RECURSIVE push_to_pad(_, _, _)
push_to_pad(alph, buf, extra_pad_characters) ==
    IF extra_pad_characters = <<>>
    THEN Outcome("Ok", buf, NoChar, <<>>, <<>>, <<>>)
    ELSE LET r == char_to_scalar(alph, Head(extra_pad_characters))
         IN  IF ~r.ok
             THEN Outcome("CharacterNotInAlphabet", buf, r.ch, <<>>, <<>>, <<>>)
             ELSE push_to_pad(alph, Append(buf, r.val), Tail(extra_pad_characters))

\* The transform loop of encode.  kind is "Panic" when the unwrap of
\* scalar_to_char fails, after the pad index of that char has been popped.
RECURSIVE encode_loop(_, _, _, _, _, _)
encode_loop(alph, text, buf, cipher_text, pad, used) ==
    IF text = <<>>
    THEN Outcome("Ok", buf, NoChar, cipher_text, pad, used)
    ELSE LET r == char_to_scalar(alph, Head(text))
         IN  IF ~r.ok
             THEN Outcome("CharacterNotInAlphabet", buf, r.ch, cipher_text, pad, used)
             ELSE IF buf = <<>>
             THEN Outcome("Panic", buf, NoChar, cipher_text, pad, used)
             ELSE LET v  == r.val
                      p  == Head(buf)
                      d  == v - p
                      c  == IF d < 0 THEN d + ByteLen(alph) ELSE d
                      cc == scalar_to_char(alph, c)
                      pc == scalar_to_char(alph, p)
                  IN  IF cc = NoChar
                      THEN Outcome("Panic", Tail(buf), NoChar, cipher_text, pad,
                                   Append(used, p))
                      ELSE IF pc = NoChar
                      THEN Outcome("Panic", Tail(buf), NoChar, Append(cipher_text, cc),
                                   pad, Append(used, p))
                      ELSE encode_loop(alph, Tail(text), Tail(buf),
                                       Append(cipher_text, cc), Append(pad, pc),
                                       Append(used, p))

\* encode without its validation pass: an absent char is met in the transform
\* loop, after the pad indices of the chars before it have been popped.
encode_unvalidated(alph, buf, plain_text) ==
    IF Len(buf) < ByteLen(plain_text)
    THEN Outcome("PadBufferNotLongEnough", buf, NoChar, <<>>, <<>>, <<>>)
    ELSE encode_loop(alph, plain_text, buf, <<>>, <<>>, <<>>)

\* encode: the length check (buffer length against the BYTE length of the
\* input), the validation pass, then the transform loop.
encode(alph, buf, plain_text) ==
    IF Len(buf) < ByteLen(plain_text)
    THEN Outcome("PadBufferNotLongEnough", buf, NoChar, <<>>, <<>>, <<>>)
    ELSE IF first_invalid(alph, plain_text) # NoChar
    THEN Outcome("CharacterNotInAlphabet", buf, first_invalid(alph, plain_text),
                 <<>>, <<>>, <<>>)
    ELSE encode_loop(alph, plain_text, buf, <<>>, <<>>, <<>>)

\* The transform loop of decode.
RECURSIVE decode_loop(_, _, _, _, _)
decode_loop(alph, text, buf, plaintext, used) ==
    IF text = <<>>
    THEN Outcome("Ok", buf, NoChar, plaintext, <<>>, used)
    ELSE LET r == char_to_scalar(alph, Head(text))
         IN  IF ~r.ok
             THEN Outcome("CharacterNotInAlphabet", buf, r.ch, plaintext, <<>>, used)
             ELSE IF buf = <<>>
             THEN Outcome("Panic", buf, NoChar, plaintext, <<>>, used)
             ELSE LET v  == r.val
                      p  == Head(buf)
                      c  == (v + p) % ByteLen(alph)
                      cc == scalar_to_char(alph, c)
                  IN  IF cc = NoChar
                      THEN Outcome("Panic", Tail(buf), NoChar, plaintext, <<>>,
                                   Append(used, p))
                      ELSE decode_loop(alph, Tail(text), Tail(buf),
                                       Append(plaintext, cc), Append(used, p))

\* decode that takes as many indices off the buffer as the input has BYTES.
decode_drain_bytes(alph, buf, cipher_text) ==
    IF Len(buf) < ByteLen(cipher_text)
    THEN Outcome("PadBufferNotLongEnough", buf, NoChar, <<>>, <<>>, <<>>)
    ELSE IF first_invalid(alph, cipher_text) # NoChar
    THEN Outcome("CharacterNotInAlphabet", buf, first_invalid(alph, cipher_text),
                 <<>>, <<>>, <<>>)
    ELSE [decode_loop(alph, cipher_text, buf, <<>>, <<>>)
             EXCEPT !.buffer = SubSeq(buf, ByteLen(cipher_text) + 1, Len(buf))]

\* decode: the same length check and validation pass, then its loop.
decode(alph, buf, cipher_text) ==
    IF Len(buf) < ByteLen(cipher_text)
    THEN Outcome("PadBufferNotLongEnough", buf, NoChar, <<>>, <<>>, <<>>)
    ELSE IF first_invalid(alph, cipher_text) # NoChar
    THEN Outcome("CharacterNotInAlphabet", buf, first_invalid(alph, cipher_text),
                 <<>>, <<>>, <<>>)
    ELSE decode_loop(alph, cipher_text, buf, <<>>, <<>>)

\* generate_pad: size values of gen_range(0..alphabet.len()) pushed in turn.
generate_pad(alph, buf, rand_vals) ==
    Outcome("Ok", buf \o rand_vals, NoChar, <<>>, <<>>, <<>>)

\* clear_pad that drops the front index only (pop_front for clear).
clear_pad_front(buf) ==
    Outcome("Ok", IF buf = <<>> THEN buf ELSE Tail(buf), NoChar, <<>>, <<>>, <<>>)

\* clear_pad: the buffer is emptied.
clear_pad(buf) == Outcome("Ok", <<>>, NoChar, <<>>, <<>>, <<>>)

(***************************************************************************)
(* The record of the most recent call, and the state machine.              *)
(***************************************************************************)
Call(op, arg, size, before, r) ==
    [op |-> op, arg |-> arg, size |-> size, before |-> before,
     kind |-> r.kind, ch |-> r.ch, text |-> r.text, pad |-> r.pad, used |-> r.used]

NoCall == Call("new", <<>>, 0, <<>>, Outcome("Ok", <<>>, NoChar, <<>>, <<>>, <<>>))

Idle == [stage |-> "idle", op |-> "new", arg |-> <<>>, before |-> <<>>, pushed |-> <<>>]

\* A caller that retries after PadBufferNotLongEnough (spec section 7): the
\* failed call, then a successful push of enough pad, then the same call.
Retry(r, c) ==
    IF /\ r.stage = "pushed"
       /\ c.op = r.op
       /\ c.arg = r.arg
    THEN [r EXCEPT !.stage = "retried"]
    ELSE IF /\ c.op \in {"encode", "decode"}
            /\ c.kind = "PadBufferNotLongEnough"
    THEN [stage |-> "failed", op |-> c.op, arg |-> c.arg, before |-> c.before,
          pushed |-> <<>>]
    ELSE IF /\ r.stage = "failed"
            /\ c.op = "push_to_pad"
            /\ c.kind = "Ok"
            /\ Len(r.before) + Len(c.arg) >= Len(r.arg)
    THEN [r EXCEPT !.stage = "pushed", !.pushed = c.arg]
    ELSE Idle

\* A panic unwinds the caller: no further call is made on the engine.
Running == last.kind # "Panic"

Done(op, arg, size, r) ==
    /\ pad_buffer' = r.buffer
    /\ last' = Call(op, arg, size, pad_buffer, r)
    /\ retry' = Retry(retry, Call(op, arg, size, pad_buffer, r))
    /\ UNCHANGED alphabet

\* OneTimePad::new_with_alphabet: the alphabet given, an empty buffer.
Init ==
    /\ alphabet \in Alphabets
    /\ pad_buffer = <<>>
    /\ last = NoCall
    /\ retry = Idle

PushToPad ==
    /\ Running
    /\ \E t \in Texts :
        /\ Len(pad_buffer) + Len(t) <= MaxPad
        /\ Done("push_to_pad", t, 0, push_to_pad(alphabet, pad_buffer, t))

GeneratePad ==
    /\ Running
    /\ \E size \in 0..MaxGen :
        /\ Len(pad_buffer) + size <= MaxPad
        /\ \E rand_vals \in [1..size -> 0..(ByteLen(alphabet) - 1)] :
            Done("generate_pad", <<>>, size, generate_pad(alphabet, pad_buffer, rand_vals))

ClearPad ==
    /\ Running
    /\ Done("clear_pad", <<>>, 0, clear_pad(pad_buffer))

Encode ==
    /\ Running
    /\ \E plain_text \in Texts :
        Done("encode", plain_text, 0, encode(alphabet, pad_buffer, plain_text))

Decode ==
    /\ Running
    /\ \E cipher_text \in Texts :
        Done("decode", cipher_text, 0, decode(alphabet, pad_buffer, cipher_text))

Next == PushToPad \/ GeneratePad \/ ClearPad \/ Encode \/ Decode

Spec == Init /\ [][Next]_vars

(***************************************************************************)
(* The alphabet as the specification describes it (spec 3 and 4.1): a      *)
(* symbol's index is its zero-based position, L is the number of symbols.  *)
(***************************************************************************)
Symbols(alph) == {alph[i] : i \in 1..Len(alph)}

index_of(alph, symbol) ==
    (CHOOSE i \in 1..Len(alph) :
        alph[i] = symbol /\ \A j \in 1..Len(alph) : alph[j] = symbol => i <= j) - 1

symbol_at(alph, index) == alph[(index % Len(alph)) + 1]

\* buf holds the indices char_to_scalar gives the symbols of some pad text.
IsPadText(alph, buf) ==
    \A i \in 1..Len(buf) : \E s \in Symbols(alph) : char_to_scalar(alph, s).val = buf[i]

\* The symbol whose queued index is p, for p of a buffer that IsPadText.
PadSymbol(alph, p) == CHOOSE s \in Symbols(alph) : char_to_scalar(alph, s).val = p

Codec == {"encode", "decode"}

Absent(alph, text) == {i \in 1..Len(text) : text[i] \notin Symbols(alph)}

FirstAbsent(alph, text) ==
    text[CHOOSE i \in Absent(alph, text) : \A j \in Absent(alph, text) : i <= j]

\* What the operation op returns for input text on buffer buf.
Returned(op, alph, buf, text) ==
    IF op = "encode" THEN encode(alph, buf, text) ELSE decode(alph, buf, text)

(***************************************************************************)
(* The claims.                                                             *)
(***************************************************************************)

\* C1: a push_to_pad that fails with CharacterNotInAlphabet leaves the pad
\* buffer exactly as it was before the call; no prefix of the text is appended.
C1_PushAtomicOnFailure ==
    (last.op = "push_to_pad" /\ last.kind = "CharacterNotInAlphabet")
        => pad_buffer = last.before

\* C2: when encode or decode returns an error, the pad buffer is the buffer
\* before the call, and no pad index was popped before the error was returned.
C2_FailedCodecLeavesBuffer ==
    (last.op \in Codec /\ last.kind \in {"PadBufferNotLongEnough", "CharacterNotInAlphabet"})
        => (pad_buffer = last.before /\ last.used = <<>>)

\* An encode that got past the length check on a non-empty buffer and failed on
\* an absent symbol that follows a symbol of the alphabet.
C2_Witness ==
    /\ last.op = "encode"
    /\ last.kind = "CharacterNotInAlphabet"
    /\ Len(last.arg) = 2
    /\ last.arg[1] \in Symbols(alphabet)
    /\ last.ch = last.arg[2]
    /\ Len(pad_buffer) >= 2

\* C3: inverse law.  If an engine loaded with a pad text encodes P to (C, K'),
\* a fresh engine over the same alphabet loaded with K' decodes C to P.
C3_InverseLaw ==
    (last.op = "encode" /\ last.kind = "Ok" /\ IsPadText(alphabet, last.before))
        => LET fresh == push_to_pad(alphabet, <<>>, last.pad)
               back  == decode(alphabet, fresh.buffer, last.text)
           IN  fresh.kind = "Ok" /\ back.kind = "Ok" /\ back.text = last.arg

\* C4: exact consumption.  After a successful encode or decode of N symbols on
\* buffer B the buffer is B without its first N elements, and the indices used
\* for input positions 1..N are B[1..N] in that order.
C4_ExactConsumption ==
    (last.op \in Codec /\ last.kind = "Ok")
        => LET n == Len(last.arg)
           IN  /\ n <= Len(last.before)
               /\ pad_buffer = SubSeq(last.before, n + 1, Len(last.before))
               /\ last.used = SubSeq(last.before, 1, n)

\* A successful decode of a two-byte symbol that left pad in the buffer.
C4_Witness ==
    /\ last.op = "decode"
    /\ last.kind = "Ok"
    /\ Len(last.arg) = 1
    /\ ByteLen(last.arg) = 2
    /\ Len(last.before) = 2
    /\ pad_buffer = <<last.before[2]>>

\* C5: a successful encode returns, at every position i, the cipher symbol
\* symbol_at((v_i - p_i) mod L), with (v_i - p_i) mod L in [0, L), and the pad
\* symbol symbol_at(p_i), v_i and p_i being the indices of the i-th plain
\* symbol and of the i-th pad symbol and L the number of symbols.
C5_EncodeTransform ==
    (last.op = "encode" /\ last.kind = "Ok" /\ IsPadText(alphabet, last.before))
        => \A i \in 1..Len(last.arg) :
            LET L == Len(alphabet)
                v == index_of(alphabet, last.arg[i])
                p == index_of(alphabet, PadSymbol(alphabet, last.before[i]))
                c == (v - p) % L
            IN  /\ c \in 0..(L - 1)
                /\ last.text[i] = symbol_at(alphabet, c)
                /\ last.pad[i] = symbol_at(alphabet, p)

\* C6: a successful decode returns, at every position i, the plain symbol
\* symbol_at((v_i + p_i) mod L), v_i and p_i being the indices of the i-th
\* cipher symbol and of the i-th pad symbol and L the number of symbols.
C6_DecodeTransform ==
    (last.op = "decode" /\ last.kind = "Ok" /\ IsPadText(alphabet, last.before))
        => \A i \in 1..Len(last.arg) :
            LET L == Len(alphabet)
                v == index_of(alphabet, last.arg[i])
                p == index_of(alphabet, PadSymbol(alphabet, last.before[i]))
            IN  last.text[i] = symbol_at(alphabet, (v + p) % L)

\* C7: encode and decode return PadBufferNotLongEnough if and only if the
\* buffer holds fewer indices than the input has symbols.
C7_ShortIffFewerThanSymbols ==
    last.op \in Codec
        => (last.kind = "PadBufferNotLongEnough" <=> Len(last.before) < Len(last.arg))

\* C8: push_to_pad, and encode or decode on a buffer holding at least as many
\* indices as the input has symbols, given an input with a symbol absent from
\* the alphabet, fails with CharacterNotInAlphabet(s), s the first such symbol.
C8_FirstAbsentSymbolReported ==
    (/\ Absent(alphabet, last.arg) # {}
     /\ \/ last.op = "push_to_pad"
        \/ last.op \in Codec /\ Len(last.before) >= Len(last.arg))
        => (/\ last.kind = "CharacterNotInAlphabet"
            /\ last.ch = FirstAbsent(alphabet, last.arg))

\* C9: after encode or decode of X, a text over the alphabet, failed with
\* PadBufferNotLongEnough on buffer B and a push of valid pad text T with
\* len(B) + len(T) >= len(X) succeeded, the same call on X succeeds and returns
\* what it returns on a buffer holding B followed by T.
C9_RetrySucceeds ==
    (retry.stage = "retried" /\ Absent(alphabet, retry.arg) = {})
        => LET whole == push_to_pad(alphabet, retry.before, retry.pushed).buffer
               r     == Returned(retry.op, alphabet, whole, retry.arg)
           IN  /\ last.kind = "Ok"
               /\ r.kind = "Ok"
               /\ last.text = r.text
               /\ last.pad = r.pad

\* C10: no call aborts; every call succeeds or returns one of the two errors.
C10_NoAbort == last.kind \in {"Ok", "PadBufferNotLongEnough", "CharacterNotInAlphabet"}

\* C11: modular boundary.  Encoding the symbol at index 0 against the pad
\* symbol at index L-1 gives the cipher symbol at index L-1, and decoding that
\* cipher symbol against the same pad symbol gives back the symbol at index 0.
C11_ModularBoundary ==
    LET low == alphabet[1]
        top == alphabet[Len(alphabet)]
        p   == char_to_scalar(alphabet, top).val
    IN  /\ (/\ last.op = "encode"
            /\ last.arg = <<low>>
            /\ last.before # <<>>
            /\ Head(last.before) = p)
            => (last.kind = "Ok" /\ last.text = <<top>>)
        /\ (/\ last.op = "decode"
            /\ last.arg = <<top>>
            /\ last.before # <<>>
            /\ Head(last.before) = p)
            => (last.kind = "Ok" /\ last.text = <<low>>)

\* C12: generate_pad(size) appends exactly size indices, each in [0, L), behind
\* the indices already queued, which it leaves as they were; right after it an
\* encode or a decode of any text of size symbols of the alphabet succeeds.
C12_GeneratePad ==
    last.op = "generate_pad"
        => /\ last.kind = "Ok"
           /\ Len(pad_buffer) = Len(last.before) + last.size
           /\ SubSeq(pad_buffer, 1, Len(last.before)) = last.before
           /\ \A i \in (Len(last.before) + 1)..Len(pad_buffer) :
                pad_buffer[i] \in 0..(Len(alphabet) - 1)
           /\ \A x \in Texts :
                (Len(x) = last.size /\ Absent(alphabet, x) = {})
                    => /\ encode(alphabet, pad_buffer, x).kind = "Ok"
                       /\ decode(alphabet, pad_buffer, x).kind = "Ok"

(***************************************************************************)
(* The decode command of the command line (src/src/main.rs): a fresh       *)
(* engine, the pad pushed, the cipher text decoded.  What the caller sees  *)
(* is the kind of the result, the char of the error and the text printed.  *)
(***************************************************************************)
decode_command(alph, ciphertext, pad) ==
    LET pushed == push_to_pad(alph, <<>>, pad)
    IN  IF pushed.kind # "Ok"
        THEN pushed
        ELSE decode(alph, pushed.buffer, ciphertext)

Observed(r) ==
    [kind |-> r.kind, ch |-> r.ch, text |-> IF r.kind = "Ok" THEN r.text ELSE <<>>]

\* The pad text whose push queued buf, for a buffer that IsPadText.
PadTextOf(alph, buf) == [i \in 1..Len(buf) |-> PadSymbol(alph, buf[i])]

\* C13: in the decode command the cipher text and the pad are interchangeable:
\* for texts C and K over the alphabet, of the same number of symbols, decoding
\* C with pad K has the outcome (plain text or failure) of decoding K with pad C.
C13_Interchangeable ==
    (/\ last.op = "decode"
     /\ IsPadText(alphabet, last.before)
     /\ Absent(alphabet, last.arg) = {}
     /\ Len(last.arg) = Len(last.before))
        => LET K == PadTextOf(alphabet, last.before)
               C == last.arg
           IN  /\ Observed(decode_command(alphabet, C, K)) = Observed(last)
               /\ Observed(decode_command(alphabet, K, C)) = Observed(last)

\* The alphabet indices of the symbols of text, in the order of text.
IndicesOf(alph, text) == [i \in 1..Len(text) |-> index_of(alph, text[i])]

\* C14: a successful push_to_pad(T) on buffer B leaves B followed by the
\* alphabet indices (zero-based positions) of the symbols of T in the order of
\* T; and a successful push of T2 right after a successful push of T1 on B
\* leaves the buffer that one push of T1 followed by T2 leaves on B.
C14_PushAppends ==
    [][(last'.op = "push_to_pad" /\ last'.kind = "Ok")
        => /\ last'.before = pad_buffer
           /\ pad_buffer' = pad_buffer \o IndicesOf(alphabet, last'.arg)
           /\ (last.op = "push_to_pad" /\ last.kind = "Ok")
                => LET one == push_to_pad(alphabet, last.before, last.arg \o last'.arg)
                   IN  one.kind = "Ok" /\ pad_buffer' = one.buffer]_vars

\* C15: clear_pad never fails, leaves the buffer empty and the alphabet as it
\* was; and on an empty buffer, as clear_pad leaves it, every encode and decode
\* of a non-empty input fails with PadBufferNotLongEnough and leaves it empty.
C15_ClearPad ==
    [][/\ last'.op = "clear_pad"
            => /\ last'.kind = "Ok"
               /\ pad_buffer' = <<>>
               /\ alphabet' = alphabet
       /\ (pad_buffer = <<>> /\ last'.op \in Codec /\ last'.arg # <<>>)
            => /\ last'.kind = "PadBufferNotLongEnough"
               /\ pad_buffer' = <<>>
               /\ alphabet' = alphabet]_vars

\* clear_pad called on a buffer that held two indices.
C15_Witness ==
    /\ last.op = "clear_pad"
    /\ Len(last.before) = 2
    /\ pad_buffer = <<>>

\* C16: the alphabet mapping is a bijection on positions.  For every symbol s
\* that push_to_pad resolves, the index found is the zero-based position of s
\* in the alphabet, lies in [0, L), L the number of symbols, and the symbol
\* looked up at that index, or at that index plus L, is s again.
C16_AlphabetBijection ==
    (last.op = "push_to_pad" /\ last.kind = "Ok")
        => \A i \in 1..Len(last.arg) :
            LET L == Len(alphabet)
                s == last.arg[i]
                k == pad_buffer[Len(last.before) + i]
            IN  /\ k = char_to_scalar(alphabet, s).val
                /\ k = index_of(alphabet, s)
                /\ k \in 0..(L - 1)
                /\ scalar_to_char(alphabet, k) = s
                /\ scalar_to_char(alphabet, k + L) = s

\* C17: in every state reached from the empty buffer by push_to_pad,
\* generate_pad, clear_pad, encode and decode calls, every index queued in the
\* pad buffer lies in [0, L), L the number of symbols of the alphabet, and the
\* alphabet is the one the engine was constructed with.
C17_BufferValid ==
    [][/\ \A i \in 1..Len(pad_buffer') : pad_buffer'[i] \in 0..(Len(alphabet') - 1)
       /\ alphabet' = alphabet]_vars

\* C18: chunked use.  On a buffer holding at least len(X1) + len(X2) indices,
\* X1 and X2 over the alphabet, encode(X1) followed by encode(X2) succeed and
\* return cipher texts and pad texts whose concatenations are those of one
\* encode of X1 followed by X2 on the same buffer, and leave the buffer that
\* call leaves; the same for decode.
C18_ChunkedUse ==
    [][(/\ last.op \in Codec
        /\ last'.op = last.op
        /\ last'.before = pad_buffer
        /\ Absent(alphabet, last.arg) = {}
        /\ Absent(alphabet, last'.arg) = {}
        /\ Len(last.before) >= Len(last.arg) + Len(last'.arg))
        => LET one == Returned(last.op, alphabet, last.before, last.arg \o last'.arg)
           IN  /\ last.kind = "Ok"
               /\ last'.kind = "Ok"
               /\ one.kind = "Ok"
               /\ last.text \o last'.text = one.text
               /\ last.pad \o last'.pad = one.pad
               /\ pad_buffer' = one.buffer]_vars

====
